---- MODULE Spec2Model ----
(***************************************************************************)
(* LM Studio embeddings nodes for n8n.                                     *)
(*                                                                         *)
(* Part 1: the embedding provider returned by supplyData (embedQuery and   *)
(* embedDocuments), as a set of calls that run between their await points. *)
(* Part 2: the direct-output node's execute loop.                          *)
(* Part 3: the HTTP requests the package configures or sends itself        *)
(* (credential test, getModels, supplyData's connectivity check) and the   *)
(* API key it hands to the OpenAI client.                                  *)
(*                                                                         *)
(* Texts are sequences of one-character strings, so that trim() is         *)
(* computed and not assumed.  Arrays are sequences; JavaScript's 0-based   *)
(* indices are kept in the counters (i, j, validIndex) and shifted by one  *)
(* where a sequence is read.                                               *)
(***************************************************************************)
EXTENDS Integers, Sequences, FiniteSets, TLC

VARIABLES
    variant,        \* which provider node: "supabase" (nodes/LMStudioEmbeddings.node.ts) or "basic" (part_003)
    batchSize,      \* node parameter batchSize, read once by supplyData
    encodingFormat, \* node parameter encodingFormat
    clientFails,    \* whether new OpenAIEmbeddings(...) throws for the configured credentials
    kind,           \* kind[c]: the provider method call c runs
    argNull,        \* argNull[c]: the argument of call c is null/undefined
    documents,      \* documents[c]: argument of embedDocuments
    text,           \* text[c]: argument of embedQuery
    pc,             \* pc[c]: where call c stands
    i,              \* i[c]: chunk loop index of embedDocuments
    j,              \* j[c]: position in the batch inside the fallback loop
    results,        \* results[c]: the local array results of embedDocuments
    requests,       \* requests[c]: the embeddingWithRetry calls made by c, in order of issue
    retval,         \* retval[c]: the value the call resolved with
    error,          \* error[c]: the message of the Error the call rejected with
    items,          \* execute: the parameters of the input items (getInputData / getNodeParameter)
    continueOnFail, \* execute: the host's continueOnFail()
    epc,            \* execute: where the run stands
    ei,             \* execute: the item loop index i
    returnData,     \* execute: the local array returnData
    execRequests,   \* execute: the embeddingWithRetry calls made, in order of issue
    execError,      \* execute: the NodeOperationError the run rejected with
    apiKey,         \* credentials.apiKey of the lmStudioApi credential
    http,           \* the HTTP requests sent so far, in order: who sent them and their headers
    mpc,            \* getModels: where the call stands
    mresponse,      \* getModels: the response fetch resolved with
    moptions,       \* getModels: the options the call resolved with
    merror,         \* getModels: the message of the Error the call rejected with
    spc,            \* supplyData: where the call stands
    serror          \* supplyData: the message of the Error the call rejected with

provVars == <<variant, batchSize, encodingFormat, clientFails, kind, argNull,
              documents, text, pc, i, j, results, requests, retval, error>>

execVars == <<items, continueOnFail, epc, ei, returnData, execRequests, execError>>

hostVars == <<apiKey, http, mpc, mresponse, moptions, merror, spc, serror>>

vars == <<provVars, execVars, hostVars>>

----------------------------------------------------------------------------
(* Bounds of the model *)

MaxDocs == 3
MaxBatch == 3
MaxUnderflow == 2

----------------------------------------------------------------------------
(* Texts *)

Empty == <<>>
Space == <<" ">>
Hello == <<"h", "e", "l", "l", "o">>
World == <<"w", "o", "r", "l", "d">>

Docs == {Empty, Space, Hello, World}

IsWhitespace(ch) == ch \in {" ", "\t", "\n"}

RECURSIVE TrimStart(_)
TrimStart(s) ==
    IF Len(s) > 0 /\ IsWhitespace(Head(s)) THEN TrimStart(Tail(s)) ELSE s

RECURSIVE TrimEnd(_)
TrimEnd(s) ==
    IF Len(s) > 0 /\ IsWhitespace(s[Len(s)])
        THEN TrimEnd(SubSeq(s, 1, Len(s) - 1))
        ELSE s

\* String.prototype.trim
Trim(s) == TrimEnd(TrimStart(s))

\* variation: the test without trim()
IsValidDocNoTrim(doc) == Len(doc) > 0

\* the test `doc && doc.trim()` (and `!text || !text.trim()` negated)
IsValidDoc(doc) == Len(doc) > 0 /\ Len(Trim(doc)) > 0

\* Array.prototype.slice(start, end) on a sequence, with 0-based bounds
Slice(s, start, end) ==
    LET len == Len(s)
        from == IF start < 0 THEN (IF len + start > 0 THEN len + start ELSE 0)
                ELSE (IF start < len THEN start ELSE len)
        to == IF end < 0 THEN (IF len + end > 0 THEN len + end ELSE 0)
              ELSE (IF end < len THEN end ELSE len)
    IN  SubSeq(s, from + 1, to)

----------------------------------------------------------------------------
(* The embeddings endpoint *)

CharCode(ch) ==
    CASE ch = " " -> 32
      [] ch = "d" -> 100
      [] ch = "e" -> 101
      [] ch = "h" -> 104
      [] ch = "i" -> 105
      [] ch = "l" -> 108
      [] ch = "o" -> 111
      [] ch = "r" -> 114
      [] ch = "w" -> 119
      [] OTHER -> 63

RECURSIVE Checksum(_)
Checksum(s) ==
    IF Len(s) = 0 THEN 0 ELSE Len(s) * CharCode(s[Len(s)]) + Checksum(SubSeq(s, 1, Len(s) - 1))

\* the embedding the server computes for one input text: a vector of numbers
\* for "float", a string for "base64"
ServerEmbedding(doc, format) ==
    IF format = "float"
        THEN <<Checksum(doc), Len(doc)>>
        ELSE <<"b", "6", "4", ":">> \o doc

\* the `data` array of a response that carries the first count embeddings
ServerData(inputs, format, count) ==
    [k \in 1..count |->
        [object |-> "embedding", index |-> k - 1,
         embedding |-> ServerEmbedding(inputs[k], format)]]

Pending == [status |-> "pending", count |-> 0]
Failed == [status |-> "error", count |-> 0]

\* what the server can do with a request of n inputs: reject it (or not be
\* reachable), or answer with the embeddings of the first count inputs
Outcomes(n) == {Failed} \cup {[status |-> "ok", count |-> k] : k \in 0..n}

----------------------------------------------------------------------------
(* Error messages *)

ErrNoDocuments == "No documents provided"
ErrEmptyText == "Text content is empty"
ErrClient == "client configuration rejected"
ErrRequest == "request failed"
ErrUndefined == "Cannot read properties of undefined (reading 'embedding')"

WrapDocuments(msg) == "Error generating document embeddings: " \o msg
WrapQuery(msg) == "Error generating embedding: " \o msg

----------------------------------------------------------------------------
(* Calls on the provider *)

Calls == DOMAIN pc

\* an embeddingWithRetry call: its input (a list, or one string when single),
\* the chunk index i and the position in documents it was issued for
NewRequest(inputs, single, chunk, pos) ==
    [input |-> inputs, single |-> single, chunk |-> chunk, pos |-> pos,
     done |-> FALSE, outcome |-> Pending]

InFlight(c) == {k \in 1..Len(requests[c]) : ~requests[c][k].done}

Issue(c, req) == requests' = [requests EXCEPT ![c] = Append(@, req)]

Complete(c, k, o) ==
    requests' = [requests EXCEPT ![c][k].done = TRUE, ![c][k].outcome = o]

\* variation: slice(i, batchSize) in place of slice(i, i + batchSize)
BatchWrongEnd(c) == Slice(documents[c], i[c], batchSize)

Batch(c) == Slice(documents[c], i[c], i[c] + batchSize)

\* variation: the chunk is submitted as it is, blank documents included
ValidBatchUnfiltered(c) == Batch(c)

ValidBatch(c) == SelectSeq(Batch(c), IsValidDoc)

Empties(n) == [k \in 1..n |-> <<>>]

Raise(c, msg) ==
    /\ pc' = [pc EXCEPT ![c] = "raised"]
    /\ error' = [error EXCEPT ![c] = msg]

----------------------------------------------------------------------------
(* embedDocuments *)

\* entry of embedDocuments: the argument check, then the client construction
\* and results = [] inside the outer try
DocumentsInvoke(c) ==
    /\ pc[c] = "entry"
    /\ kind[c] = "embedDocuments"
    /\ IF argNull[c] \/ Len(documents[c]) = 0
           THEN /\ Raise(c, ErrNoDocuments)
                /\ UNCHANGED <<i, results>>
           ELSE IF clientFails
               THEN /\ Raise(c, WrapDocuments(ErrClient))
                    /\ UNCHANGED <<i, results>>
               ELSE /\ pc' = [pc EXCEPT ![c] = "chunkLoop"]
                    /\ i' = [i EXCEPT ![c] = 0]
                    /\ results' = [results EXCEPT ![c] = <<>>]
                    /\ UNCHANGED error
    /\ UNCHANGED <<execVars, hostVars>>
    /\ UNCHANGED <<variant, batchSize, encodingFormat, clientFails, kind, argNull,
                   documents, text, j, requests, retval>>

\* one test of the chunk loop `for (let i = 0; i < documents.length; i += batchSize)`
\* and the body up to the await of the batch request, or the return after the loop
ChunkLoop(c) ==
    /\ pc[c] = "chunkLoop"
    /\ i[c] >= -MaxUnderflow
    /\ IF ~(i[c] < Len(documents[c]))
           THEN /\ pc' = [pc EXCEPT ![c] = "returned"]
                /\ retval' = [retval EXCEPT ![c] = results[c]]
                /\ UNCHANGED <<i, results, requests>>
           ELSE IF Len(ValidBatch(c)) = 0
               THEN /\ results' = [results EXCEPT ![c] = @ \o Empties(Len(Batch(c)))]
                    /\ i' = [i EXCEPT ![c] = @ + batchSize]
                    /\ UNCHANGED <<pc, retval, requests>>
               ELSE /\ Issue(c, NewRequest(ValidBatch(c), FALSE, i[c], i[c]))
                    /\ pc' = [pc EXCEPT ![c] = "awaitBatch"]
                    /\ UNCHANGED <<i, results, retval>>
    /\ UNCHANGED <<execVars, hostVars>>
    /\ UNCHANGED <<variant, batchSize, encodingFormat, clientFails, kind, argNull,
                   documents, text, j, error>>

\* variation: the mapping loop without the placeholder for a blank document
RECURSIVE MapBackDropsBlanks(_, _, _, _, _)
MapBackDropsBlanks(batch, data, pos, validIndex, pushed) ==
    IF pos >= Len(batch)
        THEN [pushed |-> pushed, threw |-> FALSE]
        ELSE IF IsValidDoc(batch[pos + 1])
            THEN IF validIndex >= Len(data)
                     THEN [pushed |-> pushed, threw |-> TRUE]
                     ELSE MapBackDropsBlanks(batch, data, pos + 1, validIndex + 1,
                                             Append(pushed, data[validIndex + 1].embedding))
            ELSE MapBackDropsBlanks(batch, data, pos + 1, validIndex, pushed)

\* the loop that maps a batch response back to the batch order, from position
\* pos of the batch on: the entries pushed, and whether data[validIndex] was
\* undefined (reading .embedding of it throws a TypeError)
RECURSIVE MapBack(_, _, _, _, _)
MapBack(batch, data, pos, validIndex, pushed) ==
    IF pos >= Len(batch)
        THEN [pushed |-> pushed, threw |-> FALSE]
        ELSE IF IsValidDoc(batch[pos + 1])
            THEN IF validIndex >= Len(data)
                     THEN [pushed |-> pushed, threw |-> TRUE]
                     ELSE MapBack(batch, data, pos + 1, validIndex + 1,
                                  Append(pushed, data[validIndex + 1].embedding))
            ELSE MapBack(batch, data, pos + 1, validIndex, Append(pushed, <<>>))

\* the try around the batch request and its catch (batchError): what is pushed
\* to results and where the call goes on.  A rejected request pushes nothing;
\* a TypeError in the mapping loop keeps what the loop pushed before it.
\* variation: the individual requests are made after every batch request,
\* answered or not
BatchHandlerAlwaysFallsBack(batch, inputs, format, o) ==
    [pushed |-> <<>>, next |-> "fallback"]

BatchHandler(batch, inputs, format, o) ==
    IF o.status = "error"
        THEN [pushed |-> <<>>, next |-> "fallback"]
        ELSE LET mapped == MapBack(batch, ServerData(inputs, format, o.count), 0, 0, <<>>)
             IN  [pushed |-> mapped.pushed,
                  next |-> IF mapped.threw THEN "fallback" ELSE "chunkLoop"]

\* variation: results is one array of the provider object, shared by its
\* calls, and the batch entries of every call go to it
BatchResponseSharedResults(c) ==
    /\ pc[c] = "awaitBatch"
    /\ \E k \in InFlight(c) : \E o \in Outcomes(Len(requests[c][k].input)) :
        /\ Complete(c, k, o)
        /\ LET h == BatchHandler(Batch(c), requests[c][k].input, encodingFormat, o)
           IN  /\ results' = [results EXCEPT ![1] = @ \o h.pushed]
               /\ pc' = [pc EXCEPT ![c] = h.next]
               /\ i' = [i EXCEPT ![c] = IF h.next = "chunkLoop" THEN @ + batchSize ELSE @]
               /\ j' = [j EXCEPT ![c] = IF h.next = "fallback" THEN 0 ELSE @]
    /\ UNCHANGED <<execVars, hostVars>>
    /\ UNCHANGED <<variant, batchSize, encodingFormat, clientFails, kind, argNull,
                   documents, text, retval, error>>

\* the batch request settles
BatchResponse(c) ==
    /\ pc[c] = "awaitBatch"
    /\ \E k \in InFlight(c) : \E o \in Outcomes(Len(requests[c][k].input)) :
        /\ Complete(c, k, o)
        /\ LET h == BatchHandler(Batch(c), requests[c][k].input, encodingFormat, o)
           IN  /\ results' = [results EXCEPT ![c] = @ \o h.pushed]
               /\ pc' = [pc EXCEPT ![c] = h.next]
               /\ i' = [i EXCEPT ![c] = IF h.next = "chunkLoop" THEN @ + batchSize ELSE @]
               /\ j' = [j EXCEPT ![c] = IF h.next = "fallback" THEN 0 ELSE @]
    /\ UNCHANGED <<execVars, hostVars>>
    /\ UNCHANGED <<variant, batchSize, encodingFormat, clientFails, kind, argNull,
                   documents, text, retval, error>>

\* variation: the fallback issues the individual requests of the chunk together
\* (Promise.all) instead of awaiting each in turn
FallbackLoopParallel(c) ==
    /\ pc[c] = "fallback"
    /\ IF j[c] >= Len(Batch(c))
           THEN /\ pc' = [pc EXCEPT ![c] = "chunkLoop"]
                /\ i' = [i EXCEPT ![c] = @ + batchSize]
                /\ UNCHANGED <<j, results, requests>>
           ELSE /\ requests' = [requests EXCEPT ![c] = @ \o
                       [k \in 1..Len(ValidBatch(c)) |->
                           NewRequest(ValidBatch(c)[k], TRUE, i[c], i[c] + k - 1)]]
                /\ pc' = [pc EXCEPT ![c] = "awaitIndividual"]
                /\ UNCHANGED <<i, j, results>>
    /\ UNCHANGED <<execVars, hostVars>>
    /\ UNCHANGED <<variant, batchSize, encodingFormat, clientFails, kind, argNull,
                   documents, text, retval, error>>

\* one step of the fallback loop `for (const doc of batch)` in the catch: up to
\* the await of the individual request, or the push for a blank document, or the
\* end of the loop (and the chunk loop's i += batchSize)
FallbackLoop(c) ==
    /\ pc[c] = "fallback"
    /\ IF j[c] >= Len(Batch(c))
           THEN /\ pc' = [pc EXCEPT ![c] = "chunkLoop"]
                /\ i' = [i EXCEPT ![c] = @ + batchSize]
                /\ UNCHANGED <<j, results, requests>>
           ELSE IF IsValidDoc(Batch(c)[j[c] + 1])
               THEN /\ Issue(c, NewRequest(Batch(c)[j[c] + 1], TRUE, i[c], i[c] + j[c]))
                    /\ pc' = [pc EXCEPT ![c] = "awaitIndividual"]
                    /\ UNCHANGED <<i, j, results>>
               ELSE /\ results' = [results EXCEPT ![c] = Append(@, <<>>)]
                    /\ j' = [j EXCEPT ![c] = @ + 1]
                    /\ UNCHANGED <<pc, i, requests>>
    /\ UNCHANGED <<execVars, hostVars>>
    /\ UNCHANGED <<variant, batchSize, encodingFormat, clientFails, kind, argNull,
                   documents, text, retval, error>>

\* variation: the catch pushes no placeholder for the failed document
IndividualHandlerNoPlaceholder(doc, format, o) ==
    LET data == ServerData(<<doc>>, format, o.count)
    IN  IF o.status = "ok" /\ Len(data) > 0
            THEN [pushed |-> <<data[1].embedding>>, next |-> "fallback"]
            ELSE [pushed |-> <<>>, next |-> "fallback"]

\* variation: the list of the response's embeddings is pushed in place of
\* data[0].embedding
IndividualHandlerPushesList(doc, format, o) ==
    LET data == ServerData(<<doc>>, format, o.count)
    IN  IF o.status = "ok" /\ Len(data) > 0
            THEN [pushed |-> << <<data[1].embedding>> >>, next |-> "fallback"]
            ELSE [pushed |-> << <<>> >>, next |-> "fallback"]

\* variation: no try around the individual request, its failure leaves the loop
IndividualHandlerNoCatch(doc, format, o) ==
    LET data == ServerData(<<doc>>, format, o.count)
    IN  IF o.status = "ok" /\ Len(data) > 0
            THEN [pushed |-> <<data[1].embedding>>, next |-> "fallback"]
            ELSE [pushed |-> <<>>, next |-> "raised"]

\* the try around an individual request and its catch (individualError)
IndividualHandler(doc, format, o) ==
    LET data == ServerData(<<doc>>, format, o.count)
    IN  IF o.status = "ok" /\ Len(data) > 0
            THEN [pushed |-> <<data[1].embedding>>, next |-> "fallback"]
            ELSE [pushed |-> << <<>> >>, next |-> "fallback"]

\* an individual request settles
IndividualResponse(c) ==
    /\ pc[c] = "awaitIndividual"
    /\ \E k \in InFlight(c) : \E o \in Outcomes(1) :
        /\ Complete(c, k, o)
        /\ LET h == IndividualHandler(requests[c][k].input, encodingFormat, o)
           IN  /\ results' = [results EXCEPT ![c] = @ \o h.pushed]
               /\ pc' = [pc EXCEPT ![c] = h.next]
    /\ j' = [j EXCEPT ![c] = @ + 1]
    /\ UNCHANGED <<execVars, hostVars>>
    /\ UNCHANGED <<variant, batchSize, encodingFormat, clientFails, kind, argNull,
                   documents, text, i, retval, error>>

----------------------------------------------------------------------------
(* embedQuery *)

\* entry of embedQuery up to the await of the request.  The supabase node
\* constructs the client inside its try and wraps what is thrown there; the
\* basic node has no try.
QueryInvoke(c) ==
    /\ pc[c] = "entry"
    /\ kind[c] = "embedQuery"
    /\ IF argNull[c] \/ ~IsValidDoc(text[c])
           THEN /\ Raise(c, ErrEmptyText)
                /\ UNCHANGED requests
           ELSE IF clientFails
               THEN /\ Raise(c, IF variant = "supabase" THEN WrapQuery(ErrClient) ELSE ErrClient)
                    /\ UNCHANGED requests
               ELSE /\ Issue(c, NewRequest(text[c], TRUE, 0, 0))
                    /\ pc' = [pc EXCEPT ![c] = "awaitQuery"]
                    /\ UNCHANGED error
    /\ UNCHANGED <<execVars, hostVars>>
    /\ UNCHANGED <<variant, batchSize, encodingFormat, clientFails, kind, argNull,
                   documents, text, i, j, results, retval>>

\* variation: a failed request is tried again
QueryHandlerRetries(v, doc, format, o) ==
    LET data == ServerData(<<doc>>, format, o.count)
    IN  IF o.status = "ok" /\ Len(data) > 0
            THEN [next |-> "returned", value |-> data[1].embedding, message |-> ""]
            ELSE [next |-> "entry", value |-> <<>>, message |-> ""]

\* what embedQuery does with the settled request: return data[0].embedding, or
\* reject (the supabase node wraps the error in its catch)
QueryHandler(v, doc, format, o) ==
    LET data == ServerData(<<doc>>, format, o.count)
        msg == IF o.status = "error" THEN ErrRequest ELSE ErrUndefined
    IN  IF o.status = "ok" /\ Len(data) > 0
            THEN [next |-> "returned", value |-> data[1].embedding, message |-> ""]
            ELSE [next |-> "raised", value |-> <<>>,
                  message |-> IF v = "supabase" THEN WrapQuery(msg) ELSE msg]

\* the request of embedQuery settles
QueryResponse(c) ==
    /\ pc[c] = "awaitQuery"
    /\ \E k \in InFlight(c) : \E o \in Outcomes(1) :
        /\ Complete(c, k, o)
        /\ LET h == QueryHandler(variant, requests[c][k].input, encodingFormat, o)
           IN  /\ pc' = [pc EXCEPT ![c] = h.next]
               /\ retval' = [retval EXCEPT ![c] = h.value]
               /\ error' = [error EXCEPT ![c] = h.message]
    /\ UNCHANGED <<execVars, hostVars>>
    /\ UNCHANGED <<variant, batchSize, encodingFormat, clientFails, kind, argNull,
                   documents, text, i, j, results>>

----------------------------------------------------------------------------
(* Credentials, model listing and connectivity check *)

MaxModels == 2

ApiKeys == {"", "sk"}
ModelIds == {"a", "b"}

\* the models the server may list: { data: [{ id }, ...] }
ModelLists == UNION {[1..n -> [id : ModelIds]] : n \in 0..MaxModels}

NoResponse == [settled |-> "no", ok |-> FALSE, hasData |-> FALSE, data |-> <<>>]
FetchRejected == [settled |-> "rejected", ok |-> FALSE, hasData |-> FALSE, data |-> <<>>]
NotOk == [settled |-> "resolved", ok |-> FALSE, hasData |-> FALSE, data |-> <<>>]

\* what fetch(`${baseUrl}/models`) may settle with: rejection, a non-2xx
\* status, a body without data, a body with data
ModelsResponses ==
    {FetchRejected, NotOk}
    \cup {[settled |-> "resolved", ok |-> TRUE, hasData |-> FALSE, data |-> <<>>]}
    \cup {[settled |-> "resolved", ok |-> TRUE, hasData |-> TRUE, data |-> d] : d \in ModelLists}

\* headers: { 'Content-Type': ..., ...(credentials.apiKey && { Authorization: `Bearer ${credentials.apiKey}` }) }
FetchHeaders(key) ==
    IF key # ""
        THEN [ContentType |-> "application/json", Authorization |-> "Bearer " \o key]
        ELSE [ContentType |-> "application/json"]

\* authenticate of the credential type; version 1 is an expression
\* ('=Bearer {{$credentials.apiKey}}'), version 2 a literal without the '='
AuthenticateHeaders(version, key) ==
    IF version = 1
        THEN [Authorization |-> "Bearer " \o key]
        ELSE [Authorization |-> "Bearer {{$credentials.apiKey}}"]

\* the key given to new OpenAIEmbeddings by the provider nodes
ProviderClientKey(key) == key

\* the key given to new OpenAIEmbeddings by execute: apiKey || 'dummy-key'
ExecuteClientKey(key) == IF key # "" THEN key ELSE "dummy-key"

\* the OpenAI client authenticates every request with the key it was built with
ClientHeaders(key) ==
    [ContentType |-> "application/json", Authorization |-> "Bearer " \o key]

Sent(sender) == \E k \in 1..Len(http) : http[k].sender = sender

Send(sender, headers) ==
    http' = Append(http, [sender |-> sender, headers |-> headers])

\* the host tests the credential: test.request with authenticate applied
CredentialTest ==
    /\ ~Sent("credentialTest")
    /\ \E version \in {1, 2} : Send("credentialTest", AuthenticateHeaders(version, apiKey))
    /\ UNCHANGED <<apiKey, mpc, mresponse, moptions, merror, spc, serror>>
    /\ UNCHANGED <<provVars, execVars>>

\* getModels up to its await of fetch
GetModels ==
    /\ mpc = "idle"
    /\ Send("getModels", FetchHeaders(apiKey))
    /\ mpc' = "await"
    /\ UNCHANGED <<apiKey, mresponse, moptions, merror, spc, serror>>
    /\ UNCHANGED <<provVars, execVars>>

ModelOptionsReversed(models) ==
    [k \in 1..Len(models) |->
        [name |-> models[Len(models) + 1 - k].id, value |-> models[Len(models) + 1 - k].id]]

\* models.map((model) => ({ name: model.id, value: model.id }))
ModelOptions(models) ==
    [k \in 1..Len(models) |-> [name |-> models[k].id, value |-> models[k].id]]

\* the rest of getModels: [threw, message, value]
ModelsHandler(response) ==
    IF response.settled = "rejected"
        THEN [threw |-> TRUE, value |-> <<>>,
              message |-> "Error fetching models from LM Studio: fetch failed"]
    ELSE IF ~response.ok
        THEN [threw |-> TRUE, value |-> <<>>,
              message |-> "Error fetching models from LM Studio: Failed to fetch models"]
    ELSE LET models == IF response.hasData THEN response.data ELSE <<>>
         IN  [threw |-> FALSE, value |-> ModelOptions(models), message |-> ""]

GetModelsResponse ==
    /\ mpc = "await"
    /\ \E response \in ModelsResponses :
        /\ mresponse' = response
        /\ LET h == ModelsHandler(response)
           IN  IF h.threw
                   THEN /\ mpc' = "raised"
                        /\ merror' = h.message
                        /\ UNCHANGED moptions
                   ELSE /\ mpc' = "returned"
                        /\ moptions' = h.value
                        /\ UNCHANGED merror
    /\ UNCHANGED <<apiKey, http, spc, serror>>
    /\ UNCHANGED <<provVars, execVars>>

\* supplyData up to its first await: the supabase variant checks the
\* connection, the basic variant builds the provider at once
SupplyData ==
    /\ spc = "idle"
    /\ IF variant = "supabase"
           THEN /\ Send("supplyData", FetchHeaders(apiKey))
                /\ spc' = "await"
           ELSE /\ spc' = "built"
                /\ UNCHANGED http
    /\ UNCHANGED <<apiKey, mpc, mresponse, moptions, merror, serror>>
    /\ UNCHANGED <<provVars, execVars>>

SupplyDataResponse ==
    /\ spc = "await"
    /\ \E response \in {FetchRejected, NotOk,
                        [settled |-> "resolved", ok |-> TRUE, hasData |-> FALSE, data |-> <<>>]} :
        IF response.settled = "rejected"
            THEN /\ spc' = "raised"
                 /\ serror' = "LM Studio connection failed: fetch failed"
        ELSE IF ~response.ok
            THEN /\ spc' = "raised"
                 /\ serror' = "LM Studio connection failed: Cannot connect to LM Studio"
            ELSE /\ spc' = "built"
                 /\ UNCHANGED serror
    /\ UNCHANGED <<apiKey, http, mpc, mresponse, moptions, merror>>
    /\ UNCHANGED <<provVars, execVars>>

\* the first embeddings request of the provider built by supplyData
ProviderRequest ==
    /\ spc = "built"
    /\ ~clientFails
    /\ ~Sent("provider")
    /\ Send("provider", ClientHeaders(ProviderClientKey(apiKey)))
    /\ UNCHANGED <<apiKey, mpc, mresponse, moptions, merror, spc, serror>>
    /\ UNCHANGED <<provVars, execVars>>

\* the first embeddings request of execute
ExecuteRequest ==
    /\ ~Sent("execute")
    /\ Send("execute", ClientHeaders(ExecuteClientKey(apiKey)))
    /\ UNCHANGED <<apiKey, mpc, mresponse, moptions, merror, spc, serror>>
    /\ UNCHANGED <<provVars, execVars>>

\* no request of this part is under way
HostIdle ==
    /\ apiKey = ""
    /\ http = <<>>
    /\ mpc = "idle"
    /\ mresponse = NoResponse
    /\ moptions = <<>>
    /\ merror = ""
    /\ spc = "idle"
    /\ serror = ""

----------------------------------------------------------------------------
(* The provider: one call of either method on a provider built by supplyData *)

Variants == {"supabase", "basic"}
Formats == {"float", "base64"}
DefaultBatchSize == 10
BatchSizes == (-1)..MaxBatch

DocLists == UNION {[1..n -> Docs] : n \in 0..MaxDocs}

\* the methods the provider object of a variant has
Methods(v) == IF v = "supabase" THEN {"embedQuery", "embedDocuments"} ELSE {"embedQuery"}

\* the calls ids and their arguments
InitCallsState(ids) ==
    /\ kind \in [ids -> Methods(variant)]
    /\ argNull \in [ids -> BOOLEAN]
    /\ documents \in [ids -> DocLists]
    /\ text \in [ids -> Docs]
    /\ \A c \in ids :
        /\ kind[c] = "embedQuery" => documents[c] = <<>>
        /\ kind[c] = "embedDocuments" => text[c] = Empty
        /\ argNull[c] => documents[c] = <<>> /\ text[c] = Empty
    /\ pc = [c \in ids |-> "entry"]
    /\ i = [c \in ids |-> 0]
    /\ j = [c \in ids |-> 0]
    /\ results = [c \in ids |-> <<>>]
    /\ requests = [c \in ids |-> <<>>]
    /\ retval = [c \in ids |-> <<>>]
    /\ error = [c \in ids |-> ""]

\* a provider built by supplyData from the node parameters, and its calls
InitCalls(ids) ==
    /\ variant \in Variants
    /\ encodingFormat \in Formats
    /\ clientFails \in BOOLEAN
    /\ batchSize \in (IF variant = "supabase" THEN BatchSizes ELSE {DefaultBatchSize})
    /\ InitCallsState(ids)

ExecIdle ==
    /\ items = <<>>
    /\ continueOnFail = FALSE
    /\ epc = "idle"
    /\ ei = 0
    /\ returnData = <<>>
    /\ execRequests = <<>>
    /\ execError = [message |-> "", itemIndex |-> -1]

Init == InitCalls({1}) /\ ExecIdle /\ HostIdle

Next ==
    \/ \E c \in Calls : DocumentsInvoke(c)
    \/ \E c \in Calls : ChunkLoop(c)
    \/ \E c \in Calls : BatchResponse(c)
    \/ \E c \in Calls : FallbackLoop(c)
    \/ \E c \in Calls : IndividualResponse(c)
    \/ \E c \in Calls : QueryInvoke(c)
    \/ \E c \in Calls : QueryResponse(c)

Spec == Init /\ [][Next]_vars

\* two calls on one provider, running between each other's await points: an
\* embedDocuments call, and a second call of either method
MaxPairDocs == 2

PairDocLists(texts, max) == UNION {[1..n -> texts] : n \in 1..max}

InitPair ==
    /\ variant = "supabase"
    /\ encodingFormat = "float"
    /\ clientFails = FALSE
    /\ batchSize \in 1..MaxPairDocs
    /\ kind \in {<<"embedDocuments", second>> : second \in Methods("supabase")}
    /\ argNull = <<FALSE, FALSE>>
    /\ documents \in {<<first, second>> :
                         first \in PairDocLists({Space, Hello}, MaxPairDocs),
                         second \in {<<>>} \cup PairDocLists({World}, MaxPairDocs - 1)}
    /\ text \in {<<Empty, second>> : second \in {Empty, World}}
    /\ (kind[2] = "embedQuery") = (documents[2] = <<>>)
    /\ (kind[2] = "embedQuery") = (text[2] = World)
    /\ pc = <<"entry", "entry">>
    /\ i = <<0, 0>>
    /\ j = <<0, 0>>
    /\ results = << <<>>, <<>> >>
    /\ requests = << <<>>, <<>> >>
    /\ retval = << <<>>, <<>> >>
    /\ error = <<"", "">>
    /\ ExecIdle
    /\ HostIdle

SpecPair == InitPair /\ [][Next]_vars

----------------------------------------------------------------------------
(* The direct-output node: execute *)

MaxItems == 2

PaddedHi == <<" ", "h", "i">>
JsonPair == <<"[", "\"", "h", "i", "\"", ",", "\"", "o", "\"", "]">>
JsonNumber == <<"7">>

ExecInputs == {Space, PaddedHi, JsonPair, JsonNumber}

DefaultModel == "text-embedding-ada-002"

\* position of the first ch in s at or after position p, 0 when there is none
RECURSIVE IndexOf(_, _, _)
IndexOf(s, ch, p) ==
    IF p > Len(s) THEN 0 ELSE IF s[p] = ch THEN p ELSE IndexOf(s, ch, p + 1)

\* the elements of a JSON array of strings: "..." { , "..." }
RECURSIVE ParseStrings(_)
ParseStrings(s) ==
    LET close == IndexOf(s, "\"", 2)
        rest == SubSeq(s, close + 1, Len(s))
        more == ParseStrings(Tail(rest))
    IN  IF Len(s) < 2 \/ s[1] # "\"" \/ close = 0
            THEN [ok |-> FALSE, value |-> <<>>]
            ELSE IF Len(rest) = 0
                THEN [ok |-> TRUE, value |-> <<SubSeq(s, 2, close - 1)>>]
                ELSE IF rest[1] # "," \/ ~more.ok
                    THEN [ok |-> FALSE, value |-> <<>>]
                    ELSE [ok |-> TRUE, value |-> <<SubSeq(s, 2, close - 1)>> \o more.value]

\* JSON.parse on the texts of the model: arrays of plain strings and unsigned
\* integers parse, anything else throws (ok = FALSE)
JSONParse(s) ==
    LET t == Trim(s)
        body == SubSeq(t, 2, Len(t) - 1)
        elems == ParseStrings(body)
    IN  IF Len(t) >= 2 /\ t[1] = "[" /\ t[Len(t)] = "]"
            THEN IF Len(body) = 0
                     THEN [ok |-> TRUE, isArray |-> TRUE, value |-> <<>>]
                     ELSE [ok |-> elems.ok, isArray |-> elems.ok, value |-> elems.value]
            ELSE IF Len(t) > 0 /\ \A k \in 1..Len(t) : t[k] \in {"0", "1", "2", "3", "4", "5", "6", "7", "8", "9"}
                THEN [ok |-> TRUE, isArray |-> FALSE, value |-> <<>>]
                ELSE [ok |-> FALSE, isArray |-> FALSE, value |-> <<>>]

\* inputTexts: the parsed array (or [input.trim()]) in multiple mode,
\* input.trim() in single mode
InputTexts(input, mode) ==
    IF mode = "multiple"
        THEN IF JSONParse(input).ok /\ JSONParse(input).isArray
                 THEN JSONParse(input).value
                 ELSE <<Trim(input)>>
        ELSE Trim(input)

\* a JavaScript value that is a number or a string
JSNumber(n) == [number |-> n]
JSString(str) == [string |-> str]

\* the overridden embedQuery / embedDocuments on the settled request
ExecEmbed(inputTexts, mode, format, o) ==
    LET data == ServerData(IF mode = "multiple" THEN inputTexts ELSE <<inputTexts>>,
                           format, o.count)
    IN  IF o.status = "error"
            THEN [threw |-> TRUE, message |-> ErrRequest, type |-> "Error", value |-> <<>>]
            ELSE IF mode = "multiple"
                THEN [threw |-> FALSE, message |-> "", type |-> "",
                      value |-> [k \in 1..Len(data) |-> data[k].embedding]]
                ELSE IF Len(data) = 0
                    THEN [threw |-> TRUE, message |-> ErrUndefined, type |-> "TypeError",
                          value |-> <<>>]
                    ELSE [threw |-> FALSE, message |-> "", type |-> "",
                          value |-> data[1].embedding]

\* Array.isArray(result): embedDocuments returns an array, embedQuery returns
\* the embedding, an array of numbers for float and a string for base64
ResultIsArray(mode, format) == mode = "multiple" \/ format = "float"

ProcessedData(result, mode, format) ==
    IF ResultIsArray(mode, format)
        THEN [k \in 1..Len(result) |->
                 [object |-> "embedding", index |-> k - 1, embedding |-> result[k]]]
        ELSE <<[object |-> "embedding", index |-> 0, embedding |-> result]>>

\* embeddingDimensions; result[0] is an array only for the list of float
\* embeddings of multiple mode
EmbeddingDimensions(result, mode, format) ==
    IF format = "float"
        THEN IF ResultIsArray(mode, format) /\ Len(result) > 0
                 THEN IF mode = "multiple"
                          THEN JSNumber(Len(result[1]))
                          ELSE JSString("unknown")
                 ELSE IF ResultIsArray(mode, format)
                     THEN JSNumber(Len(result))
                     ELSE JSString("unknown")
        ELSE JSString("encoded_as_base64")

ExecutionData(item, inputTexts, result) ==
    [json |-> [model |-> DefaultModel,
               data |-> ProcessedData(result, item.processingMode, item.encodingFormat),
               input_text |-> inputTexts,
               processing_mode |-> item.processingMode,
               encoding_format |-> item.encodingFormat,
               embedding_dimensions |->
                   EmbeddingDimensions(result, item.processingMode, item.encodingFormat)]]

\* variation: continueOnFail() is not consulted, a failed item is always recorded
CatchHandlerAlwaysContinues(continue, idx, message, type) ==
    [next |-> "loop",
     pushed |-> <<[json |-> [error |-> message, error_type |-> type],
                   pairedItem |-> [item |-> idx]]>>,
     error |-> [message |-> "", itemIndex |-> -1]]

\* the catch of the item loop: an error record when continueOnFail() holds,
\* a NodeOperationError with itemIndex otherwise
CatchHandler(continue, idx, message, type) ==
    IF continue
        THEN [next |-> "loop",
              pushed |-> <<[json |-> [error |-> message, error_type |-> type],
                            pairedItem |-> [item |-> idx]]>>,
              error |-> [message |-> "", itemIndex |-> -1]]
        ELSE [next |-> "raised", pushed |-> <<>>,
              error |-> [message |-> message, itemIndex |-> idx]]

ExecInFlight == {k \in 1..Len(execRequests) : ~execRequests[k].done}

\* the effect of the catch on the run
ExecCatch(h) ==
    /\ returnData' = returnData \o h.pushed
    /\ epc' = h.next
    /\ ei' = IF h.next = "loop" THEN ei + 1 ELSE ei
    /\ execError' = h.error

\* one test of the item loop and the body up to the await of the request: the
\* empty-input check, the client, the input texts; or the return after the loop
ExecuteLoop ==
    /\ epc = "loop"
    /\ IF ~(ei < Len(items))
           THEN /\ epc' = "returned"
                /\ UNCHANGED <<ei, returnData, execRequests, execError>>
           ELSE LET item == items[ei + 1]
                IN  IF Len(item.input) = 0 \/ Len(Trim(item.input)) = 0
                        THEN /\ ExecCatch(CatchHandler(continueOnFail, ei,
                                              "Input text is required", "NodeOperationError"))
                             /\ UNCHANGED execRequests
                        ELSE /\ execRequests' = Append(execRequests,
                                    [item |-> ei,
                                     input |-> InputTexts(item.input, item.processingMode),
                                     single |-> item.processingMode = "single",
                                     done |-> FALSE, outcome |-> Pending])
                             /\ epc' = "await"
                             /\ UNCHANGED <<ei, returnData, execError>>
    /\ UNCHANGED <<items, continueOnFail>>
    /\ UNCHANGED <<provVars, hostVars>>

\* the request of the current item settles: the output record, or the catch
ExecuteResponse ==
    /\ epc = "await"
    /\ \E k \in ExecInFlight :
       \E o \in Outcomes(IF execRequests[k].single THEN 1 ELSE Len(execRequests[k].input)) :
        /\ execRequests' = [execRequests EXCEPT ![k].done = TRUE, ![k].outcome = o]
        /\ LET item == items[ei + 1]
               r == ExecEmbed(execRequests[k].input, item.processingMode,
                              item.encodingFormat, o)
           IN  IF r.threw
                   THEN ExecCatch(CatchHandler(continueOnFail, ei, r.message, r.type))
                   ELSE /\ returnData' = Append(returnData,
                               ExecutionData(item, execRequests[k].input, r.value))
                        /\ ei' = ei + 1
                        /\ epc' = "loop"
                        /\ UNCHANGED execError
    /\ UNCHANGED <<items, continueOnFail>>
    /\ UNCHANGED <<provVars, hostVars>>

ItemParams == [input : ExecInputs, processingMode : {"single", "multiple"},
               encodingFormat : Formats]

ItemLists == UNION {[1..n -> ItemParams] : n \in 0..MaxItems}

ProviderIdle ==
    /\ variant = "supabase"
    /\ batchSize = DefaultBatchSize
    /\ encodingFormat = "float"
    /\ clientFails = FALSE
    /\ InitCallsState({})

InitExec ==
    /\ items \in ItemLists
    /\ continueOnFail \in BOOLEAN
    /\ epc = "loop"
    /\ ei = 0
    /\ returnData = <<>>
    /\ execRequests = <<>>
    /\ execError = [message |-> "", itemIndex |-> -1]
    /\ ProviderIdle
    /\ HostIdle

NextExec ==
    \/ ExecuteLoop
    \/ ExecuteResponse

SpecExec == InitExec /\ [][NextExec]_vars

----------------------------------------------------------------------------
(* The host: credential test, getModels, supplyData, first requests *)

InitHost ==
    /\ apiKey \in ApiKeys
    /\ http = <<>>
    /\ mpc = "idle"
    /\ mresponse = NoResponse
    /\ moptions = <<>>
    /\ merror = ""
    /\ spc = "idle"
    /\ serror = ""
    /\ variant \in Variants
    /\ batchSize = DefaultBatchSize
    /\ encodingFormat = "float"
    /\ clientFails \in BOOLEAN
    /\ InitCallsState({})
    /\ ExecIdle

NextHost ==
    \/ CredentialTest
    \/ GetModels
    \/ GetModelsResponse
    \/ SupplyData
    \/ SupplyDataResponse
    \/ ProviderRequest
    \/ ExecuteRequest

SpecHost == InitHost /\ [][NextHost]_vars

----------------------------------------------------------------------------
(* Properties of embedDocuments *)

\* a text that is empty or made of whitespace only
Blank(doc) == \A k \in 1..Len(doc) : doc[k] \in {" ", "\t", "\n"}

DocCalls == {c \in Calls : kind[c] = "embedDocuments"}

N(c) == Len(documents[c])

Answered(c) == {k \in 1..Len(requests[c]) : requests[c][k].done}

NumInputs(req) == IF req.single THEN 1 ELSE Len(req.input)

\* the request was rejected / was answered with one embedding per input
Rejected(req) == req.done /\ req.outcome.status = "error"
Succeeded(req) == req.done /\ req.outcome.status = "ok" /\ req.outcome.count = NumInputs(req)

\* every answered request either succeeded or was rejected
Conforming(c) == \A k \in Answered(c) : Succeeded(requests[c][k]) \/ Rejected(requests[c][k])

Emb(c, p) == ServerEmbedding(documents[c][p], encodingFormat)

\* C1: with a batch size >= 1 and requests that each succeed or fail, the list
\* embedDocuments returns has one entry per input item, and entry p is the
\* embedding of item p or an empty list.
C1_Aligned ==
    \A c \in DocCalls :
        (pc[c] = "returned" /\ batchSize >= 1 /\ Conforming(c)) =>
            /\ Len(retval[c]) = N(c)
            /\ \A p \in 1..N(c) : retval[c][p] = Emb(c, p) \/ retval[c][p] = <<>>
            /\ \A p \in 1..N(c) : Blank(documents[c][p]) => retval[c][p] = <<>>

C1_Witness ==
    \E c \in DocCalls :
        /\ pc[c] = "returned" /\ batchSize = 2 /\ Conforming(c) /\ N(c) = 3
        /\ \E k \in Answered(c) : Rejected(requests[c][k])
        /\ \E p \in 1..N(c) : ~Blank(documents[c][p]) /\ retval[c][p] = <<>>
        /\ \E p \in 1..N(c) : retval[c][p] # <<>>
        /\ \E p \in 1..N(c) : Blank(documents[c][p])

\* the batch request and the individual request of position p (0-based) were
\* both rejected
FailedTwice(c, p) ==
    /\ \E k \in Answered(c) :
        /\ ~requests[c][k].single /\ Rejected(requests[c][k])
        /\ requests[c][k].chunk <= p /\ p < requests[c][k].chunk + batchSize
    /\ \E k \in Answered(c) :
        requests[c][k].single /\ requests[c][k].pos = p /\ Rejected(requests[c][k])

\* every other item is non-blank and every other request succeeded
OthersSucceed(c, p) ==
    /\ \A q \in 1..N(c) : q # p + 1 => ~Blank(documents[c][q])
    /\ \A k \in Answered(c) :
        \/ Succeeded(requests[c][k])
        \/ /\ ~requests[c][k].single
           /\ requests[c][k].chunk <= p /\ p < requests[c][k].chunk + batchSize
        \/ requests[c][k].single /\ requests[c][k].pos = p

\* C2: when the batch request of a chunk and the individual request of its item
\* p both fail, the call still returns, entry p is an empty list and every other
\* entry is the non-empty embedding of its item (the other items being
\* non-blank and their requests successful).
C2_OnlyFailedItemEmpty ==
    \A c \in DocCalls :
        /\ (\E k \in Answered(c) : requests[c][k].single /\ Rejected(requests[c][k]))
               => pc[c] # "raised"
        /\ (pc[c] = "returned" /\ batchSize >= 1) =>
               \A p \in 0..(N(c) - 1) :
                   (FailedTwice(c, p) /\ OthersSucceed(c, p)) =>
                       /\ Len(retval[c]) = N(c)
                       /\ retval[c][p + 1] = <<>>
                       /\ \A q \in 1..N(c) : q # p + 1 =>
                              retval[c][q] = Emb(c, q) /\ retval[c][q] # <<>>

C2_Witness ==
    \E c \in DocCalls :
        /\ pc[c] = "returned" /\ batchSize = 2 /\ N(c) = 3
        /\ FailedTwice(c, 1) /\ OthersSucceed(c, 1)
        /\ Len(requests[c]) = 4

\* the batch request of the chunk at i was rejected and every individual
\* request of the chunk succeeded
ChunkFellBackCleanly(c) ==
    /\ \E k \in Answered(c) :
        ~requests[c][k].single /\ requests[c][k].chunk = i[c] /\ Rejected(requests[c][k])
    /\ \A k \in 1..Len(requests[c]) :
        (requests[c][k].single /\ requests[c][k].chunk = i[c]) => Succeeded(requests[c][k])

Suffix(s, n) == SubSeq(s, Len(s) - n + 1, Len(s))

\* what a successful batch request contributes for the chunk at i
SuccessfulBatchEntries(c) ==
    MapBack(Batch(c), ServerData(ValidBatch(c), encodingFormat, Len(ValidBatch(c))),
            0, 0, <<>>).pushed

\* C3: at the end of a fallback in which every individual request succeeded,
\* the entries the chunk has contributed are those a successful batch request
\* would have contributed, at the same positions.
C3_FallbackEqualsBatch ==
    \A c \in DocCalls :
        (pc[c] = "fallback" /\ j[c] = Len(Batch(c)) /\ batchSize >= 1
         /\ ChunkFellBackCleanly(c)) =>
            /\ Len(results[c]) >= Len(Batch(c))
            /\ Suffix(results[c], Len(Batch(c))) = SuccessfulBatchEntries(c)
            /\ Conforming(c) => Len(results[c]) = i[c] + Len(Batch(c))

C3_Witness ==
    \E c \in DocCalls :
        /\ pc[c] = "fallback" /\ j[c] = Len(Batch(c)) /\ batchSize = 3
        /\ ChunkFellBackCleanly(c)
        /\ Len(Batch(c)) = 3 /\ Len(ValidBatch(c)) = 2
        /\ Conforming(c)

\* C4: embedDocuments rejects only before any request was issued, for a null
\* or empty list or a client that cannot be constructed; once a request was
\* issued the call never rejects, and with a batch size >= 1 it can always take
\* its next step until it has returned.
C4_RaisesOnlyBeforeRequests ==
    \A c \in DocCalls :
        /\ pc[c] = "raised" =>
               /\ Len(requests[c]) = 0
               /\ argNull[c] \/ N(c) = 0 \/ clientFails
        /\ Len(requests[c]) > 0 => pc[c] # "raised"
        /\ (batchSize >= 1 /\ pc[c] \notin {"returned", "raised"}) =>
               \/ ENABLED DocumentsInvoke(c)
               \/ ENABLED ChunkLoop(c)
               \/ ENABLED BatchResponse(c)
               \/ ENABLED FallbackLoop(c)
               \/ ENABLED IndividualResponse(c)

C4_Witness ==
    \E c \in DocCalls :
        /\ pc[c] = "returned" /\ N(c) = 3 /\ batchSize = 2
        /\ \A k \in Answered(c) : ~Succeeded(requests[c][k])
        /\ \E k \in Answered(c) : requests[c][k].outcome.status = "ok"
        /\ Len(requests[c]) >= 4

AllBlank(c) == \A p \in 1..N(c) : Blank(documents[c][p])

\* C5: for a list of N >= 1 blank items, a batch size >= 1 and a client that
\* can be constructed, embedDocuments issues no request, does not reject, and
\* returns N empty lists.
C5_AllBlank ==
    \A c \in DocCalls :
        (AllBlank(c) /\ N(c) >= 1 /\ batchSize >= 1 /\ ~clientFails) =>
            /\ Len(requests[c]) = 0
            /\ pc[c] # "raised"
            /\ pc[c] = "returned" =>
                   /\ Len(retval[c]) = N(c)
                   /\ \A p \in 1..N(c) : retval[c][p] = <<>>

C5_Witness ==
    \E c \in DocCalls :
        /\ pc[c] = "returned" /\ ~clientFails /\ batchSize = 2
        /\ documents[c] = <<Space, Empty, Space>>
        /\ retval[c] = << <<>>, <<>>, <<>> >>

\* C6: for ["hello", "", "world"], batch size 2 and a server that answers every
\* request, embedDocuments issues two requests, ["hello"] then ["world"], and
\* returns [emb("hello"), [], emb("world")].
C6_Scenario ==
    \A c \in DocCalls :
        (/\ documents[c] = <<Hello, Empty, World>> /\ batchSize = 2
         /\ pc[c] = "returned"
         /\ \A k \in Answered(c) : Succeeded(requests[c][k])) =>
            /\ Len(requests[c]) = 2
            /\ requests[c][1].input = <<Hello>> /\ ~requests[c][1].single
            /\ requests[c][2].input = <<World>> /\ ~requests[c][2].single
            /\ retval[c] = <<ServerEmbedding(Hello, encodingFormat), <<>>,
                             ServerEmbedding(World, encodingFormat)>>

C6_Witness ==
    \E c \in DocCalls :
        /\ documents[c] = <<Hello, Empty, World>> /\ batchSize = 2
        /\ pc[c] = "returned"
        /\ \A k \in 1..Len(requests[c]) : Succeeded(requests[c][k])
        /\ encodingFormat = "float"
        /\ retval[c] = << <<1617, 5>>, <<>>, <<1615, 5>> >>

\* C7: a call of embedDocuments has at most one request in flight; a request
\* is issued only when all earlier ones have settled; requests are issued in
\* chunk order (each request is of the chunk of the one before it or of a later
\* chunk), a chunk's batch request before its individual requests, and the
\* individual requests of a chunk in the order of the items.
C7_Sequential ==
    \A c \in DocCalls :
        /\ Cardinality(InFlight(c)) <= 1
        /\ \A k \in 1..Len(requests[c]) : k < Len(requests[c]) => requests[c][k].done
        /\ batchSize >= 1 =>
               \A k \in 1..(Len(requests[c]) - 1) :
                   /\ requests[c][k].chunk <= requests[c][k + 1].chunk
                   /\ requests[c][k].chunk = requests[c][k + 1].chunk =>
                          /\ requests[c][k + 1].single
                          /\ requests[c][k].single =>
                                 requests[c][k].pos < requests[c][k + 1].pos
        /\ batchSize >= 1 =>
               \A k \in 1..Len(requests[c]) :
                   requests[c][k].single =>
                       /\ requests[c][k].chunk <= requests[c][k].pos
                       /\ requests[c][k].pos < requests[c][k].chunk + batchSize

C7_Witness ==
    \E c \in DocCalls :
        /\ batchSize = 2 /\ N(c) = 3
        /\ Len(requests[c]) = 5
        /\ Cardinality(InFlight(c)) = 1
        /\ requests[c][2].single /\ requests[c][3].single
        /\ ~requests[c][4].single /\ requests[c][5].single

\* C15: after each chunk has been handled (all-blank shortcut, batch
\* response, or fallback after a batch failure) the result list has grown by
\* exactly the number of items of that chunk, whatever the server answered:
\* between two chunks it holds one entry per item of the chunks handled so
\* far, also when a batch response carried fewer embeddings than inputs.
C15_ChunkGrowsResultsByItsSize ==
    \A c \in DocCalls :
        (batchSize >= 1 /\ pc[c] = "chunkLoop") =>
            Len(results[c]) = IF i[c] < N(c) THEN i[c] ELSE N(c)

\* C16: for every batch size the node accepts, zero and negative values
\* included, the chunk loop index strictly advances on every iteration of
\* embedDocuments: no step ever leaves it smaller than it was.
C16_IndexAdvances ==
    [][\A c \in DocCalls : i'[c] # i[c] => i'[c] > i[c]]_vars

\* the requests of call c that carry the item at 0-based position p
RequestsOfItem(c, p) ==
    {k \in 1..Len(requests[c]) :
        IF requests[c][k].single
            THEN requests[c][k].pos = p
            ELSE requests[c][k].chunk <= p /\ p < requests[c][k].chunk + batchSize}

\* the requests of call c made for the chunk that starts at s
RequestsOfChunk(c, s) == {k \in 1..Len(requests[c]) : requests[c][k].chunk = s}

\* the 1-based positions of the non-blank items of the chunk that starts at s
NonBlankPositions(c, s) ==
    {p \in (s + 1)..(s + batchSize) : p <= N(c) /\ ~Blank(documents[c][p])}

\* C17: embedDocuments degrades in two tiers.  With a batch size of at least
\* one, every item is carried by at most two requests, its chunk's batch
\* request and one individual request; a chunk has one batch request and an
\* item one individual request at most, so no request is repeated; the
\* individual requests of a chunk are made only after its batch request
\* failed (was rejected, or answered with fewer embeddings than inputs), none
\* after a batch request that succeeded; and the requests made for a chunk
\* number at most one plus its non-blank items, whatever happened to the
\* other chunks.
C17_TwoTiers ==
    \A c \in DocCalls : batchSize >= 1 =>
        /\ \A p \in 0..(N(c) - 1) : Cardinality(RequestsOfItem(c, p)) <= 2
        /\ \A k, l \in 1..Len(requests[c]) :
            k < l =>
              /\ (~requests[c][k].single /\ ~requests[c][l].single) =>
                     requests[c][k].chunk # requests[c][l].chunk
              /\ (requests[c][k].single /\ requests[c][l].single) =>
                     requests[c][k].pos # requests[c][l].pos
        /\ \A l \in 1..Len(requests[c]) :
            requests[c][l].single =>
                \E k \in 1..(l - 1) :
                    /\ ~requests[c][k].single
                    /\ requests[c][k].chunk = requests[c][l].chunk
                    /\ requests[c][k].done
                    /\ ~Succeeded(requests[c][k])
        /\ \A k \in 1..Len(requests[c]) :
            LET s == requests[c][k].chunk
            IN  /\ (~requests[c][k].single /\ Succeeded(requests[c][k])) =>
                       RequestsOfChunk(c, s) = {k}
                /\ Cardinality(RequestsOfChunk(c, s)) <=
                       1 + Cardinality(NonBlankPositions(c, s))

\* the first chunk's batch request is rejected and its two items are
\* requested one by one; the second chunk's batch request succeeds and is the
\* only request of that chunk
C17_Witness ==
    \E c \in DocCalls :
        /\ pc[c] = "returned" /\ batchSize = 2 /\ N(c) = 3
        /\ Len(requests[c]) = 4
        /\ ~requests[c][1].single /\ Rejected(requests[c][1])
        /\ requests[c][2].single /\ Rejected(requests[c][2])
        /\ requests[c][3].single /\ Succeeded(requests[c][3])
        /\ ~requests[c][4].single /\ Succeeded(requests[c][4])
        /\ requests[c][4].chunk = 2

\* C18: every request of embedDocuments has a non-empty input without blank
\* items; with a batch size of at least one, a batch request carries all and
\* only the non-blank items of its chunk, in their order in the input list,
\* and an individual request carries one non-blank item of its chunk.
C18_OnlyNonBlankSent ==
    \A c \in DocCalls : \A k \in 1..Len(requests[c]) :
        LET req == requests[c][k]
            last == IF req.chunk + batchSize < N(c) THEN req.chunk + batchSize ELSE N(c)
        IN  /\ IF req.single
                   THEN ~Blank(req.input)
                   ELSE /\ Len(req.input) >= 1
                        /\ \A p \in 1..Len(req.input) : ~Blank(req.input[p])
            /\ batchSize >= 1 =>
                /\ req.chunk < N(c) /\ req.chunk % batchSize = 0
                /\ IF req.single
                       THEN /\ req.chunk <= req.pos /\ req.pos < last
                            /\ req.input = documents[c][req.pos + 1]
                       ELSE req.input = SelectSeq(SubSeq(documents[c], req.chunk + 1, last),
                                                  LAMBDA doc : ~Blank(doc))

\* a chunk with a blank item between two texts: the batch request carries the
\* two texts, and after its rejection each is requested alone
C18_Witness ==
    \E c \in DocCalls :
        /\ batchSize = 3 /\ documents[c] = <<Hello, Space, World>>
        /\ Len(requests[c]) = 3
        /\ requests[c][1].input = <<Hello, World>> /\ Rejected(requests[c][1])
        /\ requests[c][2].input = Hello
        /\ requests[c][3].input = World /\ requests[c][3].pos = 2

----------------------------------------------------------------------------
(* Properties of embedQuery *)

QueryCalls == {c \in Calls : kind[c] = "embedQuery"}

NonBlankText(c) == ~argNull[c] /\ ~Blank(text[c])

\* C8: a call of embedQuery with a non-blank text issues at most one request,
\* and exactly one once the client is constructed: the text itself, as a single
\* input.  It is never issued again, whether it succeeds or fails; the call
\* returns only on success, and then returns the embedding field of element 0
\* of the response data.
C8_QueryOneRequest ==
    \A c \in QueryCalls : NonBlankText(c) =>
        /\ Len(requests[c]) <= 1
        /\ (~clientFails /\ pc[c] # "entry") =>
               /\ Len(requests[c]) = 1
               /\ requests[c][1].single /\ requests[c][1].input = text[c]
        /\ pc[c] = "returned" =>
               /\ Succeeded(requests[c][1])
               /\ retval[c] = ServerData(<<text[c]>>, encodingFormat, 1)[1].embedding
        /\ (pc[c] = "raised" /\ ~clientFails) =>
               requests[c][1].done /\ ~Succeeded(requests[c][1])

C8_Witness ==
    \E c \in QueryCalls :
        /\ text[c] = Hello /\ pc[c] = "returned" /\ encodingFormat = "float"
        /\ Len(requests[c]) = 1 /\ retval[c] = <<1617, 5>>

C8_WitnessFailure ==
    \E c \in QueryCalls :
        /\ text[c] = Hello /\ pc[c] = "raised" /\ variant = "supabase"
        /\ Len(requests[c]) = 1 /\ Rejected(requests[c][1])
        /\ error[c] = "Error generating embedding: request failed"

\* C9: a call of embedQuery with a null, empty or whitespace-only text issues
\* no request, never returns, and rejects with the empty-text error.
C9_QueryBlankRejected ==
    \A c \in QueryCalls : ~NonBlankText(c) =>
        /\ Len(requests[c]) = 0
        /\ pc[c] \in {"entry", "raised"}
        /\ pc[c] = "raised" => error[c] = ErrEmptyText
        /\ pc[c] = "entry" => ENABLED QueryInvoke(c)

C9_Witness ==
    \E c \in QueryCalls :
        /\ text[c] = Space /\ ~argNull[c] /\ pc[c] = "raised"
        /\ error[c] = "Text content is empty" /\ Len(requests[c]) = 0

----------------------------------------------------------------------------
(* Properties of concurrent calls *)

\* the server outcomes of the requests of call c, in order of issue
Log(c) == [k \in 1..Len(requests[c]) |-> requests[c][k].outcome]

\* the fallback loop run without interruption on the outcomes log[k], log[k+1], ...
RECURSIVE AloneFallback(_, _, _, _, _)
AloneFallback(batch, log, k, pos, res) ==
    IF pos > Len(batch)
        THEN [res |-> res, k |-> k]
        ELSE IF IsValidDoc(batch[pos])
            THEN AloneFallback(batch, log, k + 1, pos + 1,
                     res \o IndividualHandler(batch[pos], encodingFormat, log[k]).pushed)
            ELSE AloneFallback(batch, log, k, pos + 1, Append(res, <<>>))

\* embedDocuments(docs) run alone, from chunk start to the return, on the
\* outcomes of log
RECURSIVE AloneChunks(_, _, _, _, _)
AloneChunks(docs, log, k, start, res) ==
    IF ~(start < Len(docs))
        THEN res
        ELSE LET batch == Slice(docs, start, start + batchSize)
                 validBatch == SelectSeq(batch, IsValidDoc)
                 h == BatchHandler(batch, validBatch, encodingFormat, log[k])
                 f == AloneFallback(batch, log, k + 1, 1, res \o h.pushed)
             IN  IF Len(validBatch) = 0
                     THEN AloneChunks(docs, log, k, start + batchSize,
                                      res \o Empties(Len(batch)))
                     ELSE IF h.next = "chunkLoop"
                         THEN AloneChunks(docs, log, k + 1, start + batchSize, res \o h.pushed)
                         ELSE AloneChunks(docs, log, f.k, start + batchSize, f.res)

\* what call c returns when it runs alone against the outcomes it met
Alone(c) ==
    IF kind[c] = "embedDocuments"
        THEN AloneChunks(documents[c], Log(c), 1, 0, <<>>)
        ELSE QueryHandler(variant, text[c], encodingFormat, Log(c)[1]).value

\* C19: calls on one provider share no mutable state.  However two calls
\* interleave at their await points, a call that returns returns what it
\* returns when run alone against the server outcomes it met, and until then
\* its result list holds what the run alone holds after the same requests;
\* a call's requests carry only its own texts.
C19_CallsIndependent ==
    \A c \in Calls :
        /\ pc[c] = "returned" => retval[c] = Alone(c)
        /\ (kind[c] = "embedDocuments" /\ pc[c] = "chunkLoop") =>
               results[c] = AloneChunks(SubSeq(documents[c], 1,
                                               IF i[c] < N(c) THEN i[c] ELSE N(c)),
                                        Log(c), 1, 0, <<>>)
        /\ \A k \in 1..Len(requests[c]) :
            IF kind[c] = "embedQuery"
                THEN requests[c][k].input = text[c]
                ELSE IF requests[c][k].single
                    THEN requests[c][k].input = documents[c][requests[c][k].pos + 1]
                    ELSE \A p \in 1..Len(requests[c][k].input) :
                             \E q \in 1..N(c) : requests[c][k].input[p] = documents[c][q]

\* the first call has returned the embeddings of its two texts while the
\* second call, begun before, is in its fallback after a rejected batch request
C19_Witness ==
    /\ Calls = {1, 2}
    /\ batchSize = 1
    /\ documents[1] = <<Hello, Hello>> /\ documents[2] = <<World>>
    /\ pc[1] = "returned"
    /\ retval[1] = <<ServerEmbedding(Hello, "float"), ServerEmbedding(Hello, "float")>>
    /\ pc[2] = "awaitIndividual"
    /\ Len(requests[2]) = 2 /\ Rejected(requests[2][1])
    /\ requests[2][2].input = World

----------------------------------------------------------------------------
(* Properties of execute *)

\* item k (1-based) failed: its input is blank, or its request was rejected,
\* or (single mode) was answered without an embedding
FailedItem(k) ==
    \/ Blank(items[k].input)
    \/ \E r \in 1..Len(execRequests) :
        /\ execRequests[r].item = k - 1 /\ execRequests[r].done
        /\ \/ execRequests[r].outcome.status = "error"
           \/ execRequests[r].single /\ execRequests[r].outcome.count = 0

IsErrorRecord(rec) == "error" \in DOMAIN rec.json

\* C10: with continue-on-failure, execute never rejects, holds one record per
\* item handled so far, and returns one record per input item in input order,
\* an error record paired to item i for each failing item i; without it, the
\* run rejects at the first failing item i with itemIndex i, returns nothing,
\* and issues no request for an item after i.
C10_ContinueOnFail ==
    /\ epc \in {"loop", "returned"} => Len(returnData) = ei
    /\ continueOnFail =>
        /\ epc # "raised"
        /\ epc = "returned" =>
            /\ Len(returnData) = Len(items)
            /\ \A k \in 1..Len(items) :
                /\ ~Blank(items[k].input) =>
                       \E r \in 1..Len(execRequests) : execRequests[r].item = k - 1
                /\ IF FailedItem(k)
                       THEN /\ IsErrorRecord(returnData[k])
                            /\ returnData[k].pairedItem.item = k - 1
                       ELSE /\ ~IsErrorRecord(returnData[k])
                            /\ returnData[k].json.input_text =
                                   InputTexts(items[k].input, items[k].processingMode)
                            /\ returnData[k].json.processing_mode = items[k].processingMode
                            /\ returnData[k].json.encoding_format = items[k].encodingFormat
    /\ ~continueOnFail =>
        /\ \A k \in 1..Len(items) : FailedItem(k) =>
            /\ ei <= k - 1
            /\ epc # "returned"
            /\ \A r \in 1..Len(execRequests) : execRequests[r].item <= k - 1
            /\ ~Blank(items[k].input) => epc = "raised" /\ execError.itemIndex = k - 1
        /\ epc = "raised" =>
            /\ ei < Len(items) /\ execError.itemIndex = ei
            /\ FailedItem(ei + 1)
            /\ \A k \in 1..ei : ~FailedItem(k)
        /\ epc = "returned" => Len(returnData) = Len(items)

C10_Witness ==
    /\ continueOnFail /\ epc = "returned" /\ Len(items) = 2
    /\ items[1].input = PaddedHi /\ items[1].processingMode = "single"
    /\ items[2].input = JsonPair /\ items[2].processingMode = "multiple"
    /\ Len(execRequests) = 2
    /\ execRequests[1].input = <<"h", "i">>
    /\ execRequests[2].input = << <<"h", "i">>, <<"o">> >>
    /\ execRequests[1].outcome.status = "error"
    /\ returnData[1].pairedItem.item = 0
    /\ Len(returnData[2].json.data) = 2

C10_WitnessAbort ==
    /\ ~continueOnFail /\ epc = "raised" /\ Len(items) = 2
    /\ execError.itemIndex = 1
    /\ Len(execRequests) = 2 /\ Len(returnData) = 1

\* the records of the items 1..Len(returnData) that are output records
OutputRecords == {k \in 1..Len(returnData) : ~IsErrorRecord(returnData[k])}

\* C13: in single-text mode, for either encoding format, data of the output
\* record holds exactly one item, with index 0, whose embedding is the whole
\* embedding the server returned for the trimmed input text.
C13_SingleTextOneItem ==
    \A k \in OutputRecords :
        items[k].processingMode = "single" =>
            /\ Len(returnData[k].json.data) = 1
            /\ returnData[k].json.data[1].index = 0
            /\ returnData[k].json.data[1].embedding =
                   ServerEmbedding(Trim(items[k].input), items[k].encodingFormat)

\* C14: embedding_dimensions of an output record that holds an embedding is
\* the number of components of one returned vector when the format is
\* float, in single-text and in multiple-texts mode, and the string
\* 'encoded_as_base64' when the format is base64.
C14_EmbeddingDimensions ==
    \A k \in OutputRecords :
        Len(returnData[k].json.data) > 0 =>
            returnData[k].json.embedding_dimensions =
                IF items[k].encodingFormat = "float"
                    THEN JSNumber(Len(ServerEmbedding(
                             IF items[k].processingMode = "single"
                                 THEN Trim(items[k].input)
                                 ELSE InputTexts(items[k].input, "multiple")[1],
                             "float")))
                    ELSE JSString("encoded_as_base64")

----------------------------------------------------------------------------
(* Properties of the HTTP requests and of getModels *)

HasAuthorization(request) == "Authorization" \in DOMAIN request.headers

\* C11: every request the package sends or configures carries an
\* Authorization header only when a non-empty API key is configured, and
\* then it is "Bearer <apiKey>"; with an empty API key no request carries
\* an Authorization header.
C11_AuthorizationOnlyWithKey ==
    \A k \in 1..Len(http) :
        HasAuthorization(http[k]) =>
            /\ apiKey # ""
            /\ http[k].headers.Authorization = "Bearer " \o apiKey

\* C12: on a successful listing whose data holds the ids id_1..id_k,
\* getModels returns exactly the k pairs {name: id_j, value: id_j}, in the
\* order of the response: same length, nothing re-sorted, dropped or
\* duplicated.
C12_ModelsInServerOrder ==
    (mpc = "returned" /\ mresponse.hasData) =>
        /\ Len(moptions) = Len(mresponse.data)
        /\ \A k \in 1..Len(mresponse.data) :
            /\ moptions[k].name = mresponse.data[k].id
            /\ moptions[k].value = mresponse.data[k].id

\* a listing that is not in alphabetical order comes back as it was sent
C12_Witness ==
    /\ mpc = "returned"
    /\ mresponse.hasData
    /\ mresponse.data = <<[id |-> "b"], [id |-> "a"]>>
    /\ moptions = <<[name |-> "b", value |-> "b"], [name |-> "a", value |-> "a"]>>

====
